---- MODULE Spec2Model ----
(***************************************************************************)
(* repcalc: the matrix of a word of the free group on two generators in a  *)
(* representation parameterised by a complex number z (src/main.rs).       *)
(*                                                                         *)
(* Numbers.  A rug Float is an MPFR number of `precision` bits: the model  *)
(* writes it <<m, e>> for m * 2^e, with m odd (or <<0, 0>> for zero), and  *)
(* every operation rounds its exact result to `precision` significant      *)
(* bits, to nearest, ties to even.  A rug Complex is a pair <<re, im>> of  *)
(* such numbers; MPC rounds each part of the exact result once.  Signed    *)
(* zeros, infinities and NaN are not represented: the parameters of the    *)
(* model are real, so every square root is taken of a real number, and     *)
(* where the sign of a zero imaginary part selects the branch of the       *)
(* square root both branches are possible outcomes.  rug's Integer and     *)
(* Rational are exact: a Rational is a reduced pair n/d with d > 0.        *)
(***************************************************************************)
EXTENDS Integers, Sequences, FiniteSets, TLC

\* ------------------------------------------------------------------ bounds
\* largest p and q of the -r option
MaxN == 3
\* longest --word string
MaxWordLen == 3
\* largest --random-word length
MaxRandLen == 3

\* the loop of stern_brocot_word is followed for at most this many iterations
MaxIter == 2 * MaxN + 2

VARIABLES
    args,       \* the parsed command line (struct Args)
    pc,         \* the position of main
    precision,  \* main's precision
    z,          \* main's z
    a, b, a_inv, b_inv,     \* the generator matrices and their inverses
    symbols,    \* the symbols the word modes evaluate, in order
    ms,         \* the vector handed to M::product
    q,          \* stern_brocot_word's target
    low, high, low_m, high_m, med,  \* stern_brocot_word's locals
    iter,       \* iterations of stern_brocot_word's loop so far
    rounded,    \* some multiply of stern_brocot_word's loop was inexact
    res,        \* main's res
    status,     \* the exit status, -1 while the process runs
    stderr,     \* the diagnostics written so far
    stdout      \* the matrix printed, <<>> before

vars == <<args, pc, precision, z, a, b, a_inv, b_inv, symbols, ms, q, low, high,
          low_m, high_m, med, iter, rounded, res, status, stderr, stdout>>

\* ------------------------------------------- rug::Float / rug::Complex
Abs(n) == IF n < 0 THEN -n ELSE n

RECURSIVE BitLen(_)
BitLen(n) == IF n = 0 THEN 0 ELSE 1 + BitLen(n \div 2)

RECURSIVE Pow2(_)
Pow2(k) == IF k = 0 THEN 1 ELSE 2 * Pow2(k - 1)

Sign(n) == IF n < 0 THEN -1 ELSE IF n > 0 THEN 1 ELSE 0

\* m >= 0 rounded to a multiple of u (a power of two), to nearest, ties to even
RoundToUnit(m, u) ==
    IF (m % u) * 2 > u \/ ((m % u) * 2 = u /\ (m \div u) % 2 = 1)
    THEN ((m \div u) + 1) * u
    ELSE (m \div u) * u

\* n rounded to prec significant bits, to nearest, ties to even
RoundTo(n, prec) ==
    IF BitLen(Abs(n)) <= prec THEN n
    ELSE Sign(n) * RoundToUnit(Abs(n), Pow2(BitLen(Abs(n)) - prec))


\* the float m * 2^e in canonical form
RECURSIVE Norm(_, _)
Norm(m, e) ==
    IF m = 0 THEN <<0, 0>>
    ELSE IF m % 2 = 0 THEN Norm(m \div 2, e + 1) ELSE <<m, e>>

\* m * 2^e rounded to prec bits; prec = 0 keeps the exact value
RoundF(m, e, prec) == IF prec = 0 THEN Norm(m, e) ELSE Norm(RoundTo(m, prec), e)

\* the sum of the dyadic numbers x and y as a pair <<m, e>>, before it is
\* rounded to prec bits.  x has the larger exponent; a y too small to reach the
\* rounding position only decides the direction (a sticky bit two places
\* below it), otherwise the sum is exact.
AddOrdered(x, y, prec) ==
    IF x[1] = 0 THEN y
    ELSE IF y[1] = 0 THEN x
    ELSE IF prec > 0 /\ x[2] - y[2] >= BitLen(Abs(y[1])) + prec + 2
    THEN <<x[1] * Pow2(prec + 2) + Sign(y[1]), x[2] - prec - 2>>
    ELSE <<x[1] * Pow2(x[2] - y[2]) + y[1], y[2]>>

AddPair(x, y, prec) ==
    IF x[2] >= y[2] THEN AddOrdered(x, y, prec) ELSE AddOrdered(y, x, prec)

RoundPair(v, prec) == RoundF(v[1], v[2], prec)

\* the exact sum of x and y rounded once to prec bits
AddRound(x, y, prec) == RoundPair(AddPair(x, y, prec), prec)

\* the exact product of two floats, not rounded
MulExact(x, y) == <<x[1] * y[1], x[2] + y[2]>>

FNeg(x) == <<-x[1], x[2]>>
FAdd(x, y, prec) == AddRound(x, y, prec)
FSub(x, y, prec) == AddRound(x, FNeg(y), prec)
FMul(x, y, prec) == RoundF(x[1] * y[1], x[2] + y[2], prec)

\* x / y for y # 0, correctly rounded: the quotient to prec + 2 bits and a
\* sticky bit for the remainder
DivShift(n, dd, prec) ==
    IF prec + 2 + BitLen(dd) - BitLen(n) > 0
    THEN prec + 2 + BitLen(dd) - BitLen(n) ELSE 0

\* the quotient of n * 2^s by dd, doubled, with the sticky bit
DivSticky(n, dd, s) ==
    2 * ((n * Pow2(s)) \div dd) + (IF (n * Pow2(s)) % dd = 0 THEN 0 ELSE 1)

FDivShifted(x, y, s, prec) ==
    RoundF(Sign(x[1]) * Sign(y[1]) * DivSticky(Abs(x[1]), Abs(y[1]), s),
           x[2] - y[2] - s - 1, prec)

FDiv(x, y, prec) ==
    IF x[1] = 0 THEN <<0, 0>>
    ELSE FDivShifted(x, y, DivShift(Abs(x[1]), Abs(y[1]), prec), prec)

ISqrt(n) == CHOOSE r \in 0..n : r * r <= n /\ (r + 1) * (r + 1) > n

\* sqrt(x) for x > 0, correctly rounded
SqrtShift(x, prec) ==
    IF 2 * prec + 4 - BitLen(x[1]) > 0 THEN 2 * prec + 4 - BitLen(x[1]) ELSE 0

\* the shift that leaves an even exponent
SqrtEven(x, k0) == IF (x[2] - k0) % 2 = 0 THEN k0 ELSE k0 + 1

\* the root r of n, doubled, with the sticky bit
SqrtSticky(n, r) == 2 * r + (IF r * r = n THEN 0 ELSE 1)

FSqrtShifted(x, k, n, prec) ==
    RoundF(SqrtSticky(n, ISqrt(n)), ((x[2] - k) \div 2) - 1, prec)

FSqrtBy(x, k, prec) == FSqrtShifted(x, k, x[1] * Pow2(k), prec)

FSqrt(x, prec) == FSqrtBy(x, SqrtEven(x, SqrtShift(x, prec)), prec)

FZero == <<0, 0>>
FOne == <<1, 0>>

\* Complex::with_val(precision, (re, im))
with_val(prec, v) == <<RoundF(v[1][1], v[1][2], prec), RoundF(v[2][1], v[2][2], prec)>>

CNeg(x) == <<FNeg(x[1]), FNeg(x[2])>>
CAddP(x, y, prec) == <<FAdd(x[1], y[1], prec), FAdd(x[2], y[2], prec)>>
CSubP(x, y, prec) == <<FSub(x[1], y[1], prec), FSub(x[2], y[2], prec)>>
\* (a + bi)(c + di) = (ac - bd) + (ad + bc)i, each part rounded once
CMulP(x, y, prec) ==
    <<AddRound(MulExact(x[1], y[1]), FNeg(MulExact(x[2], y[2])), prec),
      AddRound(MulExact(x[1], y[2]), MulExact(x[2], y[1]), prec)>>

\* Complex::square: (a + bi)^2 = (a^2 - b^2) + (2ab)i
CSquareP(x, prec) ==
    <<AddRound(MulExact(x[1], x[1]), FNeg(MulExact(x[2], x[2])), prec),
      RoundF(2 * x[1][1] * x[2][1], x[1][2] + x[2][2], prec)>>

\* Complex::sqrt of a real number: the values it can return.  Of a negative
\* number it is i*sqrt(-x) or -i*sqrt(-x), by the sign of the zero imaginary
\* part.
CSqrtOf(x, root) ==
    IF x[1][1] > 0 THEN {<<root, FZero>>}
    ELSE IF x[1][1] = 0 THEN {<<FZero, FZero>>}
    ELSE {<<FZero, root>>, <<FZero, FNeg(root)>>}

CSqrtP(x, prec) ==
    CSqrtOf(x, IF x[1][1] = 0 THEN FZero ELSE FSqrt(<<Abs(x[1][1]), x[1][2]>>, prec))

\* x / y for a real or an imaginary y # 0: x / (d i) = (x.im / d) - (x.re / d) i
CDivP(x, y, prec) ==
    IF y[2][1] = 0
    THEN <<FDiv(x[1], y[1], prec), FDiv(x[2], y[1], prec)>>
    ELSE <<FDiv(x[2], y[2], prec), FNeg(FDiv(x[1], y[2], prec))>>

COne == <<FOne, FZero>>
CZero == <<FZero, FZero>>
CI == <<FZero, FOne>>

\* Complex::recip
CRecipP(x, prec) == CDivP(COne, x, prec)

\* the operations at main's precision
CAdd(x, y) == CAddP(x, y, precision)
CSub(x, y) == CSubP(x, y, precision)
CMul(x, y) == CMulP(x, y, precision)
CDiv(x, y) == CDivP(x, y, precision)
CSquare(x) == CSquareP(x, precision)
CSqrt(x) == CSqrtP(x, precision)
CRecip(x) == CRecipP(x, precision)

\* ------------------------------------------------------ struct M<C>
\* a matrix [[a, b], [c, d]] is <<a, b, c, d>>; <<>> stands for "not built"
NoM == <<>>

\* rho_a, given the value s that (z^2 - 1).sqrt() returned
rho_a_entries(c, cz) == <<cz, c, c, cz>>

rho_a_of(c, zz) == rho_a_entries(c, CMul(c, zz))

rho_a(zz, s) == rho_a_of(CRecip(s), zz)

\* the y of rho_b
rho_b_y(zz, s) == CDiv(CNeg(zz), s)

\* rho_b, given y and the value s2 that (y^2 - 1).sqrt() returned
rho_b_entries(cy, ci) == <<cy, ci, CNeg(ci), cy>>

rho_b_of(c, y) == rho_b_entries(CMul(c, y), CMul(c, CI))

rho_b(y, s2) == rho_b_of(CRecip(s2), y)

det(m) == CSub(CMul(m[1], m[4]), CMul(m[2], m[3]))

identity == <<COne, CZero, CZero, COne>>

\* the entries of M::inv, dt being the determinant
inv_entries(dt, m) ==
    <<CMul(dt, m[4]), CMul(dt, CNeg(m[2])), CMul(dt, CNeg(m[3])), CMul(dt, m[1])>>

inv(m) == inv_entries(det(m), m)

mul(m1, m2) ==
    <<CAdd(CMul(m1[1], m2[1]), CMul(m1[2], m2[3])),
      CAdd(CMul(m1[1], m2[2]), CMul(m1[2], m2[4])),
      CAdd(CMul(m1[3], m2[1]), CMul(m1[4], m2[3])),
      CAdd(CMul(m1[3], m2[2]), CMul(m1[4], m2[4]))>>

\* the loop of M::product without the skip of its first element
RECURSIVE product_loop_no_skip(_, _, _)
product_loop_no_skip(v, i, r) ==
    IF i >= Len(v) THEN r
    ELSE product_loop_no_skip(v, i + 1, mul(r, v[i + 1]))

\* the loop of M::product from its i-th element (counted from 0) on
RECURSIVE product_loop(_, _, _)
product_loop(v, i, r) ==
    IF i >= Len(v) THEN r
    ELSE IF i = 0 THEN product_loop(v, i + 1, r)
    ELSE product_loop(v, i + 1, mul(r, v[i + 1]))

\* M::product of a non-empty vector
product(v) == product_loop(v, 0, v[1])

\* --------------------------------------------------------- parse_word
Alphabet == {"a", "b", "A", "B"}

parse_word(input) ==
    IF \A i \in 1..Len(input) : input[i] \in Alphabet
    THEN [ok |-> TRUE, val |-> input]
    ELSE [ok |-> FALSE, val |-> <<>>]

\* ------------------------------------- rug::Rational, ExtendedRational
RECURSIVE Gcd(_, _)
Gcd(x, y) == IF y = 0 THEN x ELSE Gcd(y, x % y)

\* a Rational that is not brought to lowest terms
Rational_from_unreduced(n, d) == <<n, d>>

\* Rational::from((n, d)) for d > 0: the fraction in lowest terms
Rational_from(n, d) == <<n \div Gcd(n, d), d \div Gcd(n, d)>>

RZero == <<0, 1>>
ROne == <<1, 1>>

R(r) == [inf |-> FALSE, n |-> r[1], d |-> r[2]]
Infinity == [inf |-> TRUE, n |-> 1, d |-> 0]

\* a numerator 0 for Infinity
numer_zero_for_infinity(x) == IF x.inf THEN 0 ELSE x.n

numer(x) == IF x.inf THEN 1 ELSE x.n
denom(x) == IF x.inf THEN 0 ELSE x.d

\* ExtendedRational::eq
eq(x, y) ==
    IF x.inf /\ y.inf THEN TRUE
    ELSE IF ~x.inf /\ ~y.inf THEN x.n = y.n /\ x.d = y.d
    ELSE FALSE

\* ExtendedRational::partial_cmp: "Less", "Equal" or "Greater"
partial_cmp(x, y) ==
    IF x.inf /\ y.inf THEN "Equal"
    ELSE IF x.inf THEN "Greater"
    ELSE IF y.inf THEN "Less"
    ELSE IF x.n * y.d < y.n * x.d THEN "Less"
    ELSE IF x.n * y.d > y.n * x.d THEN "Greater"
    ELSE "Equal"

lt(x, y) == partial_cmp(x, y) = "Less"

mediant(x, y) ==
    LET xx == numer(x) + numer(y)
        yy == denom(x) + denom(y)
    IN  IF yy = 0 THEN Infinity ELSE R(Rational_from(xx, yy))

\* ------------------------------------------------------- the inputs
\* the values of -z x y: 0 and 2 (y = 0)
GivenZSet == {<<FZero, FZero>>, <<<<1, 1>>, FZero>>}
\* a value rng.gen::<f64>() can return, in [0, 1): 1/2 (the imaginary draw 0)
RandomZSet == {<<<<1, -1>>, FZero>>}
\* the values of --precision
PrecisionSet == {3, 5}

None == [some |-> FALSE, val |-> <<>>]
Some(v) == [some |-> TRUE, val |-> v]

\* the strings of --word the model starts from: every word over the alphabet
\* up to MaxWordLen, and two strings holding another letter
WordSet ==
    (UNION {[1..n -> Alphabet] : n \in 0..MaxWordLen}) \cup {<<"c">>, <<"a", "c">>}

\* the parameter options: neither, -z alone, --random-z alone, both
ParamSet ==
    {[random_z |-> FALSE, z |-> None], [random_z |-> TRUE, z |-> None],
     [random_z |-> TRUE, z |-> Some(<<<<1, 1>>, FZero>>)]}
    \cup {[random_z |-> FALSE, z |-> Some(v)] : v \in GivenZSet}

\* the word options: none, each alone over its whole range, and each
\* combination of two or three of them
WordModeSet ==
    {[word |-> None, r |-> None, random_word |-> None]}
    \cup {[word |-> Some(w), r |-> None, random_word |-> None] : w \in WordSet}
    \cup {[word |-> None, r |-> Some(<<p, qq>>), random_word |-> None] :
            p \in 0..MaxN, qq \in 0..MaxN}
    \cup {[word |-> None, r |-> None, random_word |-> Some(<<n>>)] : n \in 0..MaxRandLen}
    \cup {[word |-> Some(<<"b", "a">>), r |-> Some(<<1, 2>>), random_word |-> None],
          [word |-> Some(<<"b", "a">>), r |-> None, random_word |-> Some(<<1>>)],
          [word |-> None, r |-> Some(<<1, 2>>), random_word |-> Some(<<1>>)],
          [word |-> Some(<<"b", "a">>), r |-> Some(<<1, 2>>), random_word |-> Some(<<1>>)]}

ArgsSet ==
    {[random_z |-> pm.random_z, z |-> pm.z, precision |-> pr, word |-> wm.word,
      r |-> wm.r, random_word |-> wm.random_word] :
        pm \in ParamSet, pr \in PrecisionSet, wm \in WordModeSet}

NoR == [inf |-> FALSE, n |-> 0, d |-> 0]

\* everything main has not computed yet
Idle ==
    /\ z = <<>>
    /\ a = NoM /\ b = NoM /\ a_inv = NoM /\ b_inv = NoM
    /\ symbols = <<>> /\ ms = <<>>
    /\ q = NoR /\ low = NoR /\ high = NoR /\ med = NoR
    /\ low_m = NoM /\ high_m = NoM
    /\ iter = 0 /\ rounded = FALSE
    /\ res = NoM
    /\ status = -1 /\ stderr = <<>> /\ stdout = <<>>

Init ==
    /\ args \in ArgsSet
    /\ pc = "start"
    /\ precision = args.precision
    /\ Idle

\* ------------------------------------------------------------- main
\* Args::parse: clap rejects a --word that parse_word rejects, with status 2
ParseArgs ==
    /\ pc = "start"
    /\ IF args.word.some /\ ~parse_word(args.word.val).ok
       THEN /\ pc' = "exit"
            /\ status' = 2
            /\ stderr' = Append(stderr, "Value must contain only the letters 'a', 'b', 'A', 'B'.")
       ELSE /\ pc' = "resolve_z"
            /\ UNCHANGED <<status, stderr>>
    /\ UNCHANGED <<args, precision, z, a, b, a_inv, b_inv, symbols, ms, q, low, high,
                   low_m, high_m, med, iter, rounded, res, stdout>>

\* -z looked at before --random-z
param_mode_given_first(ar) ==
    IF ar.z.some THEN "z" ELSE IF ar.random_z THEN "random_z" ELSE "missing"

\* the branch of `let z = if args.random_z .. else if let Some(z) = args.z .. else ..`
param_mode(ar) ==
    IF ar.random_z THEN "random_z" ELSE IF ar.z.some THEN "z" ELSE "missing"

MissingZ == "At least one of z, random-z must be provided."

ResolveZ ==
    /\ pc = "resolve_z"
    /\ CASE param_mode(args) = "random_z" ->
              /\ \E v \in RandomZSet : z' = with_val(precision, v)
              /\ pc' = "generators"
              /\ UNCHANGED <<status, stderr>>
         [] param_mode(args) = "z" ->
              /\ z' = with_val(precision, args.z.val)
              /\ pc' = "generators"
              /\ UNCHANGED <<status, stderr>>
         [] param_mode(args) = "missing" ->
              /\ stderr' = Append(stderr, MissingZ)
              /\ status' = 1
              /\ pc' = "exit"
              /\ UNCHANGED z
    /\ UNCHANGED <<args, precision, a, b, a_inv, b_inv, symbols, ms, q, low, high,
                   low_m, high_m, med, iter, rounded, res, stdout>>

\* let a = rho_a(..); let b = rho_b(..); let a_inv = ..; let b_inv = ..
Generators ==
    /\ pc = "generators"
    /\ \E s \in CSqrt(CSub(CSquare(z), COne)) :
         \E y \in {rho_b_y(z, s)} :
           \E s2 \in CSqrt(CSub(CSquare(y), COne)) :
             \E ma \in {rho_a(z, s)}, mb \in {rho_b(y, s2)} :
               /\ a' = ma
               /\ b' = mb
               /\ a_inv' = inv(ma)
               /\ b_inv' = inv(mb)
    /\ pc' = "select"
    /\ UNCHANGED <<args, precision, z, symbols, ms, q, low, high, low_m, high_m, med,
                   iter, rounded, res, status, stderr, stdout>>

\* the matrix of a symbol
matrix_of(c) ==
    CASE c = "a" -> a
      [] c = "b" -> b
      [] c = "A" -> a_inv
      [] c = "B" -> b_inv

\* the symbol of a draw of rng.gen_range(0usize..4)
symbol_of(k) ==
    CASE k = 0 -> "a"
      [] k = 1 -> "b"
      [] k = 2 -> "A"
      [] k = 3 -> "B"

\* no word option taken for an explicit word
word_mode_missing_as_word(ar) ==
    IF ar.random_word.some THEN "random_word"
    ELSE IF ar.word.some THEN "word"
    ELSE IF ar.r.some THEN "r"
    ELSE "word"

\* the branch of `let res = if let Some(n) = args.random_word .. else if let
\* Some(word) = args.word .. else if let Some(r) = args.r .. else ..`
word_mode(ar) ==
    IF ar.random_word.some THEN "random_word"
    ELSE IF ar.word.some THEN "word"
    ELSE IF ar.r.some THEN "r"
    ELSE "missing"

MissingWord == "At least one of --word, --random-word, -r must be provided."

\* the branch taken, up to the call of M::product or of stern_brocot_word
SelectWord ==
    /\ pc = "select"
    /\ CASE word_mode(args) = "random_word" ->
              /\ \E w \in [1..args.random_word.val[1] -> 0..3] :
                   /\ symbols' = [i \in 1..Len(w) |-> symbol_of(w[i])]
                   /\ ms' = [i \in 1..Len(w) |-> matrix_of(symbol_of(w[i]))]
              /\ pc' = "product"
              /\ UNCHANGED <<q, status, stderr>>
         [] word_mode(args) = "word" ->
              /\ symbols' = args.word.val
              /\ ms' = [i \in 1..Len(args.word.val) |-> matrix_of(args.word.val[i])]
              /\ pc' = "product"
              /\ UNCHANGED <<q, status, stderr>>
         [] word_mode(args) = "r" ->
              /\ q' = IF args.r.val[2] = 0 THEN Infinity
                      ELSE R(Rational_from(args.r.val[1], args.r.val[2]))
              /\ pc' = "stern_brocot_word"
              /\ UNCHANGED <<symbols, ms, status, stderr>>
         [] word_mode(args) = "missing" ->
              /\ stderr' = Append(stderr, MissingWord)
              /\ status' = 1
              /\ pc' = "exit"
              /\ UNCHANGED <<symbols, ms, q>>
    /\ UNCHANGED <<args, precision, z, a, b, a_inv, b_inv, low, high, low_m, high_m,
                   med, iter, rounded, res, stdout>>

\* M::product(ms): ms[0] panics on an empty vector (status 101)
Product ==
    /\ pc = "product"
    /\ IF Len(ms) = 0
       THEN /\ pc' = "panic"
            /\ status' = 101
            /\ stderr' = Append(stderr, "index out of bounds: the len is 0 but the index is 0")
            /\ UNCHANGED res
       ELSE /\ res' = product(ms)
            /\ pc' = "report"
            /\ UNCHANGED <<status, stderr>>
    /\ UNCHANGED <<args, precision, z, a, b, a_inv, b_inv, symbols, ms, q, low, high,
                   low_m, high_m, med, iter, rounded, stdout>>

\* the early returns of stern_brocot_word: "b", "a", or "loop"
early_return(x) ==
    IF x.inf THEN "b"
    ELSE IF x.n = ROne[1] /\ x.d = ROne[2] THEN "a"
    ELSE "loop"

\* stern_brocot_word up to its loop: the two early returns, or the initial bounds
stern_brocot_word ==
    /\ pc = "stern_brocot_word"
    /\ CASE early_return(q) = "b" ->
              /\ res' = b
              /\ pc' = "report"
              /\ UNCHANGED <<low, high, low_m, high_m>>
         [] early_return(q) = "a" ->
              /\ res' = a
              /\ pc' = "report"
              /\ UNCHANGED <<low, high, low_m, high_m>>
         [] early_return(q) = "loop" ->
              /\ low' = R(RZero)
              /\ low_m' = a
              /\ high' = Infinity
              /\ high_m' = b
              /\ pc' = "loop"
              /\ UNCHANGED res
    /\ UNCHANGED <<args, precision, z, a, b, a_inv, b_inv, symbols, ms, q, med, iter,
                   rounded, status, stderr, stdout>>

\* m1 * m2 computed without rounding
mul_exact(m1, m2) ==
    <<CAddP(CMulP(m1[1], m2[1], 0), CMulP(m1[2], m2[3], 0), 0),
      CAddP(CMulP(m1[1], m2[2], 0), CMulP(m1[2], m2[4], 0), 0),
      CAddP(CMulP(m1[3], m2[1], 0), CMulP(m1[4], m2[3], 0), 0),
      CAddP(CMulP(m1[3], m2[2], 0), CMulP(m1[4], m2[4], 0), 0)>>

\* the two comparisons of the loop exchanged
loop_branch_exchanged(lo, lm, hi, hm, t, m, p) ==
    IF lt(t, m)
    THEN [low |-> m, low_m |-> p, high |-> hi, high_m |-> hm,
          med |-> m, returned |-> FALSE, res |-> NoM]
    ELSE IF lt(m, t)
    THEN [low |-> lo, low_m |-> lm, high |-> m, high_m |-> p,
          med |-> m, returned |-> FALSE, res |-> NoM]
    ELSE [low |-> lo, low_m |-> lm, high |-> hi, high_m |-> hm,
          med |-> m, returned |-> TRUE, res |-> p]

\* one iteration of the loop of stern_brocot_word on the locals lo, lm, hi, hm
\* and the target t, m being the mediant and p the product the branch taken
\* computes: the locals after it, and whether it returned and what
loop_branch(lo, lm, hi, hm, t, m, p) ==
    IF lt(m, t)
    THEN [low |-> m, low_m |-> p, high |-> hi, high_m |-> hm,
          med |-> m, returned |-> FALSE, res |-> NoM]
    ELSE IF lt(t, m)
    THEN [low |-> lo, low_m |-> lm, high |-> m, high_m |-> p,
          med |-> m, returned |-> FALSE, res |-> NoM]
    ELSE [low |-> lo, low_m |-> lm, high |-> hi, high_m |-> hm,
          med |-> m, returned |-> TRUE, res |-> p]

\* the product taken in the other order
loop_body_swapped(lo, lm, hi, hm, t) ==
    loop_branch(lo, lm, hi, hm, t, mediant(lo, hi), mul(hm, lm))

loop_body(lo, lm, hi, hm, t) ==
    loop_branch(lo, lm, hi, hm, t, mediant(lo, hi), mul(lm, hm))

\* one iteration of stern_brocot_word's loop
stern_brocot_loop ==
    /\ pc = "loop"
    /\ iter < MaxIter
    /\ \E n \in {loop_body(low, low_m, high, high_m, q)} :
           /\ low' = n.low
           /\ low_m' = n.low_m
           /\ high' = n.high
           /\ high_m' = n.high_m
           /\ med' = n.med
           /\ IF n.returned
              THEN res' = n.res /\ pc' = "report"
              ELSE UNCHANGED <<res, pc>>
    /\ rounded' = (rounded \/ mul(low_m, high_m) # mul_exact(low_m, high_m))
    /\ iter' = iter + 1
    /\ UNCHANGED <<args, precision, z, a, b, a_inv, b_inv, symbols, ms, q, status,
                   stderr, stdout>>

\* the report: the four entries are printed; of the trace and eigenvector
\* lines that follow only the outcome is kept: main returns, or the unwrap of
\* cmp_abs in is_eigenvector panics on a NaN
Report ==
    /\ pc = "report"
    /\ stdout' = res
    /\ status' \in {0, 101}
    /\ pc' = "done"
    /\ UNCHANGED <<args, precision, z, a, b, a_inv, b_inv, symbols, ms, q, low, high,
                   low_m, high_m, med, iter, rounded, res, stderr>>

Next ==
    \/ ParseArgs
    \/ ResolveZ
    \/ Generators
    \/ SelectWord
    \/ Product
    \/ stern_brocot_word
    \/ stern_brocot_loop
    \/ Report

Spec == Init /\ [][Next]_vars

\* --------------------------------------------- M::inv on its own
\* the entries of the matrices M::inv is applied to
EntrySet == {CZero, COne, <<<<1, 1>>, FZero>>, CI, CNeg(COne)}

InitInv ==
    /\ precision \in PrecisionSet
    /\ args = [random_z |-> FALSE, z |-> None, precision |-> precision, word |-> None,
               r |-> None, random_word |-> None]
    /\ pc = "inv"
    /\ a \in EntrySet \X EntrySet \X EntrySet \X EntrySet
    /\ z = <<>> /\ b = NoM /\ a_inv = NoM /\ b_inv = NoM
    /\ symbols = <<>> /\ ms = <<>>
    /\ q = NoR /\ low = NoR /\ high = NoR /\ med = NoR
    /\ low_m = NoM /\ high_m = NoM
    /\ iter = 0 /\ rounded = FALSE
    /\ res = NoM
    /\ status = -1 /\ stderr = <<>> /\ stdout = <<>>

\* a_inv = a.inv()
ApplyInv ==
    /\ pc = "inv"
    /\ a_inv' = inv(a)
    /\ pc' = "inv_done"
    /\ UNCHANGED <<args, precision, z, a, b, b_inv, symbols, ms, q, low, high, low_m,
                   high_m, med, iter, rounded, res, status, stderr, stdout>>

NextInv == ApplyInv

SpecInv == InitInv /\ [][NextInv]_vars

\* ------------------------------ ExtendedRational::mediant on its own
\* the extended rationals with numerator and denominator up to 2 * MaxN
ExtendedRationals ==
    {Infinity} \cup {R(Rational_from(n, d)) : n \in 0..(2 * MaxN), d \in 1..(2 * MaxN)}

InitMediant ==
    /\ args = [random_z |-> FALSE, z |-> None, precision |-> 5, word |-> None,
               r |-> None, random_word |-> None]
    /\ precision = 5
    /\ pc = "mediant"
    /\ low \in ExtendedRationals
    /\ high \in ExtendedRationals
    /\ z = <<>> /\ a = NoM /\ b = NoM /\ a_inv = NoM /\ b_inv = NoM
    /\ symbols = <<>> /\ ms = <<>>
    /\ q = NoR /\ med = NoR
    /\ low_m = NoM /\ high_m = NoM
    /\ iter = 0 /\ rounded = FALSE
    /\ res = NoM
    /\ status = -1 /\ stderr = <<>> /\ stdout = <<>>

\* med = low.mediant(&high)
ApplyMediant ==
    /\ pc = "mediant"
    /\ med' = mediant(low, high)
    /\ pc' = "mediant_done"
    /\ UNCHANGED <<args, precision, z, a, b, a_inv, b_inv, symbols, ms, q, low, high,
                   low_m, high_m, iter, rounded, res, status, stderr, stdout>>

NextMediant == ApplyMediant

SpecMediant == InitMediant /\ [][NextMediant]_vars

\* ============================================================ claims
Terminal == pc \in {"done", "exit", "panic"}

\* how many parameter options and how many word options the command line gives
ParamModes == (IF args.random_z THEN 1 ELSE 0) + (IF args.z.some THEN 1 ELSE 0)
WordModes ==
    (IF args.word.some THEN 1 ELSE 0) + (IF args.r.some THEN 1 ELSE 0)
    + (IF args.random_word.some THEN 1 ELSE 0)

HasDiag(msg) == \E i \in 1..Len(stderr) : stderr[i] = msg

\* the matrix a symbol stands for
GeneratorOf(c) ==
    IF c = "a" THEN a ELSE IF c = "b" THEN b ELSE IF c = "A" THEN a_inv ELSE b_inv

SymbolMatrices(w) == [i \in 1..Len(w) |-> GeneratorOf(w[i])]

\* ((m1 * m2) * m3) * ... * mn
RECURSIVE LeftFold(_)
LeftFold(v) ==
    IF Len(v) = 1 THEN v[1]
    ELSE mul(LeftFold(SubSeq(v, 1, Len(v) - 1)), v[Len(v)])

\* every multiply of the left fold is exact
RECURSIVE FoldExact(_)
FoldExact(v) ==
    \/ Len(v) = 1
    \/ /\ FoldExact(SubSeq(v, 1, Len(v) - 1))
       /\ mul(LeftFold(SubSeq(v, 1, Len(v) - 1)), v[Len(v)])
            = mul_exact(LeftFold(SubSeq(v, 1, Len(v) - 1)), v[Len(v)])

\* the symbol word of p/qq in the Stern-Brocot tree: between n1/d1 with word w1
\* and n2/d2 with word w2, the mediant has the word w1 w2
RECURSIVE SBWordFrom(_, _, _, _, _, _, _, _)
SBWordFrom(n1, d1, n2, d2, w1, w2, p, qq) ==
    IF p * (d1 + d2) = (n1 + n2) * qq THEN w1 \o w2
    ELSE IF (n1 + n2) * qq < p * (d1 + d2)
    THEN SBWordFrom(n1 + n2, d1 + d2, n2, d2, w1 \o w2, w2, p, qq)
    ELSE SBWordFrom(n1, d1, n1 + n2, d1 + d2, w1, w1 \o w2, p, qq)

SBWord(p, qq) == SBWordFrom(0, 1, 1, 0, <<"a">>, <<"b">>, p, qq)

\* the -r option was the one evaluated, with p and qq
RationalMode == q # NoR
TargetP == args.r.val[1]
TargetQ == args.r.val[2]

\* C1: stern_brocot_word terminates for every target built from a pair (p, q)
\* of non-negative integers, p = 0 included: the rational p/q lies at depth
\* below p + q of the tree, so the loop has returned before its iteration
\* p + q, and it is never still running after p + q iterations.
C1_LoopTerminates == pc = "loop" => iter < TargetP + TargetQ

\* C2 (as claimed): a missing or a conflicting selection of parameter mode or
\* of word mode is fatal: no matrix is printed and the status is not 0.
C2_MissingOrConflictingIsFatal ==
    (ParamModes # 1 \/ WordModes # 1) => (stdout = <<>> /\ status # 0)

\* C2 (amended): a missing selection of parameter mode or of word mode is
\* fatal: nothing is evaluated or printed and the run ends with a non-zero
\* status.  A conflicting selection is accepted and resolved by precedence:
\* --random-z before -z, and --random-word before --word before -r, so exactly
\* one parameter mode and one word mode is evaluated.
C2_MissingIsFatalConflictByPrecedence ==
    /\ (ParamModes = 0 \/ WordModes = 0) =>
         /\ stdout = <<>> /\ res = NoM /\ status # 0
         /\ pc \notin {"product", "stern_brocot_word", "loop", "report", "done", "panic"}
         /\ Terminal => status \in {1, 2}
    /\ z # <<>> =>
         IF args.random_z THEN z \in {with_val(precision, v) : v \in RandomZSet}
         ELSE args.z.some /\ z = with_val(precision, args.z.val)
    /\ pc \in {"product", "stern_brocot_word", "loop", "report", "done", "panic"} =>
         IF args.random_word.some
         THEN Len(symbols) = args.random_word.val[1] /\ ~RationalMode
         ELSE IF args.word.some
         THEN symbols = args.word.val /\ ~RationalMode
         ELSE /\ args.r.some /\ RationalMode /\ symbols = <<>>
              /\ q = IF TargetQ = 0 THEN Infinity
                     ELSE R(Rational_from(TargetP, TargetQ))

C2_Witness ==
    /\ pc = "done" /\ stdout # <<>>
    /\ args.random_z /\ args.z.some
    /\ args.random_word.some /\ args.word.some /\ args.r.some

\* [[d, -b], [-c, a]]
adj(m) == <<m[4], CNeg(m[2]), CNeg(m[3]), m[1]>>
scale(c, m) == <<CMul(c, m[1]), CMul(c, m[2]), CMul(c, m[3]), CMul(c, m[4])>>

\* C3: for every matrix M with determinant det # 0, inverse(M) is
\* (1/det) [[d, -b], [-c, a]]: det * inverse(M) is [[d, -b], [-c, a]] and
\* M * inverse(M) is the identity, not only for det = 1.
C3_InverseIsAdjugateOverDet ==
    (pc = "inv_done" /\ det(a) # CZero) =>
        (scale(det(a), a_inv) = adj(a) /\ mul(a, a_inv) = identity)

\* C4: the driver never calls product with an empty sequence, so product
\* never faults on its first element.
C4_ProductNeverEmpty == (pc = "product" => Len(ms) > 0) /\ pc # "panic"

\* C5: for every non-empty symbol sequence s1 .. sn the explicit-word and the
\* random-word paths return the left fold ((m(s1) m(s2)) m(s3)) .. m(sn), every
\* symbol's matrix used once, in the order of the sequence.
C5_WordPathsLeftFold ==
    (pc \in {"report", "done"} /\ symbols # <<>>) =>
        /\ res = LeftFold(SymbolMatrices(symbols))
        /\ ms = SymbolMatrices(symbols)
        /\ args.random_word.some \/ symbols = args.word.val

C5_Witness ==
    /\ pc = "done" /\ ~args.random_word.some /\ Len(symbols) = 3
    /\ symbols[1] # symbols[2]
    /\ res # mul(ms[1], mul(ms[2], ms[3]))

\* C6 (as claimed): for every coprime pair (p, q) of positive integers the
\* rational-mode result equals M::product over the symbol word of p/q.
C6_RationalEqualsWord ==
    (pc \in {"report", "done"} /\ RationalMode /\ TargetP >= 1 /\ TargetQ >= 1
     /\ Gcd(TargetP, TargetQ) = 1) =>
        res = product(SymbolMatrices(SBWord(TargetP, TargetQ)))

\* C6 (amended): for every coprime pair (p, q) of positive integers other
\* than (1, 1), the rational-mode result equals M::product over the symbol
\* word of p/q whenever every multiply of the two computations is exact; (1, 1)
\* returns generator a, not the product of its word ab, and with inexact
\* multiplies the two results can differ by rounding.
C6_RationalEqualsWordWhenExact ==
    (pc \in {"report", "done"} /\ RationalMode /\ TargetP >= 1 /\ TargetQ >= 1
     /\ Gcd(TargetP, TargetQ) = 1 /\ <<TargetP, TargetQ>> # <<1, 1>>
     /\ ~rounded /\ FoldExact(SymbolMatrices(SBWord(TargetP, TargetQ)))) =>
        res = product(SymbolMatrices(SBWord(TargetP, TargetQ)))

C6_Witness ==
    /\ pc = "done" /\ RationalMode /\ args.r.val = <<2, 3>>
    /\ SBWord(2, 3) = <<"a", "a", "b", "a", "b">>
    /\ ~rounded /\ FoldExact(SymbolMatrices(SBWord(2, 3)))
    /\ res = product(SymbolMatrices(SBWord(2, 3)))

\* C7: stern_brocot_word returns exactly generator b's matrix for every (p, 0)
\* and exactly generator a's matrix for every (k, k) with k > 0; the loop is
\* not entered and nothing is multiplied.
C7_EarlyReturns ==
    (pc \in {"report", "done"} /\ RationalMode) =>
        /\ TargetQ = 0 => (res = b /\ iter = 0 /\ low = NoR /\ low_m = NoM)
        /\ (TargetQ > 0 /\ TargetP = TargetQ) =>
             (res = a /\ iter = 0 /\ low = NoR /\ low_m = NoM)

C7_Witness ==
    pc = "done" /\ RationalMode /\ args.r.val = <<2, 2>> /\ res = a /\ res # b

\* C8: for any two extended rationals low < high the mediant lies strictly
\* between them; it is (n1 + n2)/(d1 + d2) for finite n1/d1 and n2/d2, and
\* (n + 1)/d for n/d and Infinity.
C8_MediantStrictlyBetween ==
    (pc = "mediant_done" /\ lt(low, high)) =>
        /\ lt(low, med) /\ lt(med, high)
        /\ ~med.inf
        /\ IF high.inf THEN med.n * low.d = (low.n + 1) * med.d
           ELSE med.n * (low.d + high.d) = (low.n + high.n) * med.d

C8_Witness ==
    /\ pc = "mediant_done" /\ lt(low, high) /\ ~high.inf /\ low.n > 0
    /\ lt(low, med) /\ lt(med, high)

\* C9 (as claimed): whenever a missing-selection diagnostic has been written,
\* no generator matrix has been constructed and no inverse computed.
C9_DiagnosticBeforeComputation ==
    (HasDiag(MissingZ) \/ HasDiag(MissingWord)) =>
        (a = NoM /\ b = NoM /\ a_inv = NoM /\ b_inv = NoM)

\* C9 (amended): a missing parameter selection is reported before any
\* arbitrary-precision value is built; a missing word selection is reported
\* after z, both generators and both inverses have been computed, and before
\* any matrix is multiplied for a word; either way the run then ends with
\* status 1.
C9_DiagnosticOrder ==
    /\ HasDiag(MissingZ) =>
         (z = <<>> /\ a = NoM /\ b = NoM /\ a_inv = NoM /\ b_inv = NoM)
    /\ HasDiag(MissingWord) =>
         /\ z # <<>> /\ a # NoM /\ b # NoM /\ a_inv = inv(a) /\ b_inv = inv(b)
         /\ ms = <<>> /\ ~RationalMode /\ res = NoM /\ iter = 0
    /\ (HasDiag(MissingZ) \/ HasDiag(MissingWord)) =>
         (pc = "exit" /\ status = 1 /\ stdout = <<>>)
    /\ (Terminal /\ ParamModes = 0 /\ status # 2) => HasDiag(MissingZ)
    /\ (Terminal /\ ParamModes > 0 /\ WordModes = 0) => HasDiag(MissingWord)

C9_Witness ==
    pc = "exit" /\ HasDiag(MissingWord) /\ a # NoM /\ a_inv # NoM /\ b_inv # NoM

\* the value of x and of n/d are the same
SameValue(x, n, d) == ~x.inf /\ x.n * d = n * x.d

\* the mediant of the bounds, as numerator and denominator
MedN == low.n + (IF high.inf THEN 1 ELSE high.n)
MedD == low.d + (IF high.inf THEN 0 ELSE high.d)

C10_Interval == (pc = "loop" /\ q.n > 0) => (lt(low, q) /\ lt(q, high))

C10_Step ==
    (pc = "loop" /\ pc' = "loop" /\ q.n > 0) =>
        \/ /\ MedN * q.d < q.n * MedD
           /\ SameValue(low', MedN, MedD) /\ lt(low, low')
           /\ low_m' = mul(low_m, high_m)
           /\ high' = high /\ high_m' = high_m
        \/ /\ MedN * q.d > q.n * MedD
           /\ SameValue(high', MedN, MedD) /\ lt(high', high)
           /\ high_m' = mul(low_m, high_m)
           /\ low' = low /\ low_m' = low_m

\* C10: for every finite target q > 0, q # 1, low < q < high holds at the start
\* of every iteration of the loop, and every iteration that does not return
\* replaces exactly one bound by the mediant (low when the mediant is below q,
\* high when it is above) and that bound's matrix by low_m * high_m, which
\* strictly narrows the interval and leaves the other bound and its matrix.
C10_LoopNarrows == []C10_Interval /\ [][C10_Step]_vars

C10_Witness ==
    pc = "loop" /\ iter >= 2 /\ q.n > 0 /\ low.n > 0 /\ ~high.inf
====
